---------------------------- MODULE Spec2Model ----------------------------
(***************************************************************************)
(* Model of the contact submission handler, POST in                        *)
(* src/app/api/contact/route.ts.                                           *)
(*                                                                         *)
(* One invocation of POST is a sequence of synchronous segments separated  *)
(* by awaits.  Each action below is one such segment: it starts when the   *)
(* awaited promise settles (the way it settles is the action's input) and  *)
(* runs the code up to the next await or to the return.                    *)
(*                                                                         *)
(* JavaScript values are written as strings: "undefined", "null", "true",  *)
(* "false", "num:<n>" and "str:<text>".  The texts of the source that are  *)
(* Japanese are transliterated, the source line is given beside each.      *)
(***************************************************************************)
EXTENDS Naturals, Sequences, FiniteSets

(***************************************************************************)
(* Bounds of the model.                                                    *)
(***************************************************************************)
NumInvocations == 2

Inv == 1 .. NumInvocations

(***************************************************************************)
(* JavaScript values and truthiness (the ! operator of route.ts:29).       *)
(***************************************************************************)
JsUndefined == "undefined"
JsNull      == "null"
JsTrue      == "true"
JsFalse     == "false"
JsEmpty     == "str:"
JsZero      == "num:0"
JsOne       == "num:1"

Falsy(v) == v \in {JsUndefined, JsNull, JsFalse, JsEmpty, JsZero}

Truthy(v) == ~Falsy(v)

(***************************************************************************)
(* Texts and statuses of the responses.                                    *)
(***************************************************************************)
MsgRequired     == "Hissu koumoku wo subete nyuuryoku shite kudasai"          \* route.ts:31
MsgBotFailed    == "Bot kenshou ni shippai shimashita. Mou ichido otameshi kudasai."  \* route.ts:54
MsgServerError  == "Server error ga hassei shimashita"                         \* route.ts:64, 179
MsgSendFailed   == "Soushin ni shippai shimashita. Mou ichido otameshi kudasai."  \* route.ts:121
MsgCompleted    == "Soushin ga kanryou shimashita"                             \* route.ts:173

StatusOk          == 200
StatusBadRequest  == 400
StatusServerError == 500

NoResponse == [status |-> 0, message |-> "none"]

JsonResponse(msg, st) == [status |-> st, message |-> msg]

(***************************************************************************)
(* The request bodies.  kind says what request.json() does: it throws      *)
(* ("unparseable"), or it returns null, a number, or an object with the    *)
(* keys of ContactFormData, each of which may be missing ("undefined").    *)
(***************************************************************************)
CompanyVals == {JsUndefined, JsEmpty, "str:Acme"}
NameVals    == {JsUndefined, JsEmpty, "str:Tanaka"}
EmailVals   == {JsUndefined, JsEmpty, "str:t@example.com", "str:s@example.org"}
PhoneVals   == {JsUndefined, JsEmpty, "str:090"}
MessageVals == {JsUndefined, JsEmpty, "str:quote please"}
ConsentVals == {JsUndefined, JsFalse, JsTrue, JsZero, JsOne, "str:yes"}
TokenVals   == {JsUndefined, JsEmpty, "str:tok123"}

ContactFormData ==
    [kind : {"object"}, company : CompanyVals, name : NameVals, email : EmailVals,
     phone : PhoneVals, message : MessageVals, privacyPolicy : ConsentVals,
     turnstileToken : TokenVals]

NoFields(k) ==
    [kind |-> k, company |-> JsUndefined, name |-> JsUndefined, email |-> JsUndefined,
     phone |-> JsUndefined, message |-> JsUndefined, privacyPolicy |-> JsUndefined,
     turnstileToken |-> JsUndefined]

Bodies == ContactFormData \cup {NoFields(k) : k \in {"unparseable", "null", "number"}}

NoRequest == NoFields("none")

\* The bodies of the requests that are handled concurrently: two valid
\* submissions of different senders, one without the token, and null.
Submission1 ==
    [kind |-> "object", company |-> "str:Acme", name |-> "str:Tanaka",
     email |-> "str:t@example.com", phone |-> JsUndefined, message |-> "str:quote please",
     privacyPolicy |-> JsTrue, turnstileToken |-> "str:tok123"]

Submission2 ==
    [Submission1 EXCEPT !.email = "str:s@example.org", !.phone = "str:090"]

ConcurrentBodies ==
    {Submission1, Submission2, [Submission1 EXCEPT !.turnstileToken = JsUndefined],
     NoFields("null")}

(***************************************************************************)
(* What the verification service can answer (TurnstileResponse), as        *)
(* turnstileResponse.json() gives it: the body does not parse, or it is    *)
(* null, or an object whose success and error-codes may be missing.        *)
(***************************************************************************)
ErrorCodes == {JsUndefined, "codes:invalid-input-response", "codes:timeout-or-duplicate"}

TurnstileResponse ==
    {[shape |-> "unparseable", success |-> JsUndefined, errorCodes |-> JsUndefined],
     [shape |-> "null", success |-> JsUndefined, errorCodes |-> JsUndefined],
     [shape |-> "object", success |-> JsUndefined, errorCodes |-> JsUndefined],
     [shape |-> "object", success |-> JsTrue, errorCodes |-> JsUndefined]}
    \cup [shape : {"object"}, success : {JsFalse}, errorCodes : ErrorCodes]

NoData == [shape |-> "none", success |-> JsUndefined, errorCodes |-> JsUndefined]

WebhookTexts == {"txt:rate limited", "txt:unknown webhook"}

(***************************************************************************)
(* The process configuration, process.env.                                 *)
(***************************************************************************)
Environments ==
    [WEBHOOK_URL : {JsUndefined, JsEmpty, "str:https://hook"},
     CF_SECRET_KEY : {JsUndefined, "str:secret"}]

VARIABLES
    env,              \* process.env, read only
    pc,               \* pc[i]: where invocation i of POST is suspended
    request,          \* request[i]: what request.json() gives invocation i
    turnstileData,    \* turnstileData[i]: the parsed verification answer
    webhookResponse,  \* webhookResponse[i]: "none", "ok", "notok", "rejected"
    response,         \* response[i]: the NextResponse POST returned
    verifyCalls,      \* verifyCalls[i]: bodies posted to the verification service
    webhookCalls,     \* webhookCalls[i]: payloads posted to the webhook
    emailCalls,       \* emailCalls[i]: mails handed to resend.emails.send
    inflight,         \* inflight[i]: outbound calls begun and not yet settled
    events,           \* events[i]: begin and end of the outbound calls, in order
    log,              \* log[i]: what console.error was given
    dom,              \* which elements the static page has
    menuActive,       \* mobileMenu.classList contains 'active'
    btnActive,        \* menuBtn.classList contains 'active'
    bodyOverflow,     \* document.body.style.overflow
    scrollY,          \* window.scrollY
    prevScrollY,      \* window.scrollY before the last scroll event
    navbar,           \* the inline style of the navbar
    lastEvent         \* the last event the page script handled

\* The state of the handler POST.
postVars == <<env, pc, request, turnstileData, webhookResponse, response,
              verifyCalls, webhookCalls, emailCalls, inflight, events, log>>

\* The state of a static page running the page script.
pageVars == <<dom, menuActive, btnActive, bodyOverflow, scrollY, prevScrollY,
              navbar, lastEvent>>

vars == <<postVars, pageVars>>

(***************************************************************************)
(* The validation with the check of the consent flag forgotten.            *)
(***************************************************************************)
ValidationFailsNoConsent(b) ==
    \/ Falsy(b.company)
    \/ Falsy(b.name)
    \/ Falsy(b.email)
    \/ Falsy(b.message)
    \/ Falsy(b.turnstileToken)

(***************************************************************************)
(* The validation with the check of the challenge token forgotten.         *)
(***************************************************************************)
ValidationFailsNoToken(b) ==
    \/ Falsy(b.company)
    \/ Falsy(b.name)
    \/ Falsy(b.email)
    \/ Falsy(b.message)
    \/ Falsy(b.privacyPolicy)

(***************************************************************************)
(* Field presence validation, route.ts:29.                                 *)
(***************************************************************************)
ValidationFails(b) ==
    \/ Falsy(b.company)
    \/ Falsy(b.name)
    \/ Falsy(b.email)
    \/ Falsy(b.message)
    \/ Falsy(b.privacyPolicy)
    \/ Falsy(b.turnstileToken)

(***************************************************************************)
(* JSON.stringify({secret, response}), route.ts:43-46: a key whose value   *)
(* is undefined is left out of the document.                               *)
(***************************************************************************)
VerifyBody(secret, token) ==
    [secret |-> IF secret = JsUndefined THEN "absent" ELSE secret, response |-> token]

(***************************************************************************)
(* The embed of the webhook payload, route.ts:70-108.  The timestamp is    *)
(* the wall clock and is left out.                                         *)
(***************************************************************************)
EmbedColor == 26316   \* 0x0066cc

\* The phone field left out only when the key is missing.
PhoneFieldUnlessMissing(phone) ==
    IF phone # JsUndefined
    THEN <<[name |-> "Denwa bangou", value |-> phone, inline |-> FALSE]>>
    ELSE <<>>

PhoneField(phone) ==
    IF Truthy(phone)
    THEN <<[name |-> "Denwa bangou", value |-> phone, inline |-> FALSE]>>
    ELSE <<>>

\* The fields with the phone appended after the message.
EmbedFieldsPhoneLast(b) ==
    <<[name |-> "Kaisha-mei", value |-> b.company, inline |-> TRUE],
      [name |-> "Shimei", value |-> b.name, inline |-> TRUE],
      [name |-> "Meeru adoresu", value |-> b.email, inline |-> FALSE],
      [name |-> "Otoiawase naiyou", value |-> b.message, inline |-> FALSE]>>
    \o PhoneField(b.phone)

EmbedFields(b) ==
    <<[name |-> "Kaisha-mei", value |-> b.company, inline |-> TRUE],
      [name |-> "Shimei", value |-> b.name, inline |-> TRUE],
      [name |-> "Meeru adoresu", value |-> b.email, inline |-> FALSE]>>
    \o PhoneField(b.phone)
    \o <<[name |-> "Otoiawase naiyou", value |-> b.message, inline |-> FALSE]>>

DiscordPayload(b) ==
    [title |-> "Atarashii otoiawase", color |-> EmbedColor, fields |-> EmbedFields(b),
     footer |-> "Kabushikigaisha FunEx"]

(***************************************************************************)
(* The confirmation mail, route.ts:128-166.  html is the list of the       *)
(* values the template interpolates, in the template's order.              *)
(***************************************************************************)
ConfirmationMail(b) ==
    [from |-> "noreply@funex.co.jp", to |-> b.email,
     subject |-> "Otoiawase wo uketsukemashita",
     html |-> <<b.name, b.company, b.name, b.email>>
              \o (IF Truthy(b.phone) THEN <<b.phone>> ELSE <<>>)
              \o <<b.message>>]

(***************************************************************************)
(* The static page, as the page script (script.js) sees it.  dom says      *)
(* which of the elements the script looks up exist on the page.  The       *)
(* navbar's inline style has the three properties the script writes, and   *)
(* the two that would hide it, which it never writes.                      *)
(***************************************************************************)
Doms == [menuBtn : BOOLEAN, mobileMenu : BOOLEAN, navbar : BOOLEAN]

FullDom == [menuBtn |-> TRUE, mobileMenu |-> TRUE, navbar |-> TRUE]

NavbarUnstyled ==
    [background |-> "", padding |-> "", boxShadow |-> "", transform |-> "", display |-> ""]

ScrollPositions == {0, 50, 51, 100, 101, 150}

\* script.js:29: if (window.scrollY > 50)
HeaderThreshold == 50

\* The hrefs of the links: the bare "#", a fragment with and without its
\* element on the page, and another page.
Hrefs == {"#", "#services", "#missing", "/company.html"}

IsAnchor(href) == href \in {"#", "#services", "#missing"}

TargetExists(href) == href = "#services"

PageLoaded(d) ==
    /\ dom = d
    /\ menuActive = FALSE
    /\ btnActive = FALSE
    /\ bodyOverflow = ""
    /\ scrollY = 0
    /\ prevScrollY = 0
    /\ navbar = NavbarUnstyled
    /\ lastEvent = [kind |-> "load", menuWasActive |-> FALSE]

(***************************************************************************)
(* Initially no invocation has begun, and the page has just been loaded.   *)
(***************************************************************************)
NoInvocation ==
    /\ pc = [i \in Inv |-> "idle"]
    /\ request = [i \in Inv |-> NoRequest]
    /\ turnstileData = [i \in Inv |-> NoData]
    /\ webhookResponse = [i \in Inv |-> "none"]
    /\ response = [i \in Inv |-> NoResponse]
    /\ verifyCalls = [i \in Inv |-> <<>>]
    /\ webhookCalls = [i \in Inv |-> <<>>]
    /\ emailCalls = [i \in Inv |-> <<>>]
    /\ inflight = [i \in Inv |-> {}]
    /\ events = [i \in Inv |-> <<>>]
    /\ log = [i \in Inv |-> <<>>]

Init ==
    /\ env \in Environments
    /\ NoInvocation
    /\ PageLoaded(FullDom)

(***************************************************************************)
(* Building blocks of the actions.                                         *)
(***************************************************************************)
\* The response built and the return forgotten.
ReturnForgotten(i, msg, st) ==
    /\ response' = [response EXCEPT ![i] = JsonResponse(msg, st)]
    /\ UNCHANGED pc

\* return NextResponse.json({message}, {status})
Return(i, msg, st) ==
    /\ response' = [response EXCEPT ![i] = JsonResponse(msg, st)]
    /\ pc' = [pc EXCEPT ![i] = "done"]

\* The outer catch answering with the text of the failed delivery.
CatchAllSendFailed(i, origin) ==
    /\ log' = [log EXCEPT ![i] = Append(@, "Contact form error: " \o origin)]
    /\ Return(i, MsgSendFailed, StatusServerError)

\* The outer catch, route.ts:176-182: whatever was thrown inside the try is
\* logged and answered with the server error.
CatchAll(i, origin) ==
    /\ log' = [log EXCEPT ![i] = Append(@, "Contact form error: " \o origin)]
    /\ Return(i, MsgServerError, StatusServerError)

\* The events of invocation i grow by es; the calls in flight become fl.
Emit(i, es, fl) ==
    /\ events' = [events EXCEPT ![i] = @ \o es]
    /\ inflight' = [inflight EXCEPT ![i] = fl]

Throw(origin) == <<origin, "throw">>

Begin(svc) == <<svc, "begin">>

End(svc) == <<svc, "end">>

(***************************************************************************)
(* The conditions of the early returns.                                    *)
(***************************************************************************)
\* route.ts:26: destructuring null throws a TypeError.
CannotDestructure(b) == b.kind = "null"

\* The verification judged by the presence of error codes, not by the flag.
VerificationFailedByCodes(d) == d.errorCodes # JsUndefined

\* route.ts:51: if (!turnstileData.success)
VerificationFailed(d) == Falsy(d.success)

\* The configuration check that only notices a variable that is not set.
WebhookUnconfiguredIfUnset(url) == url = JsUndefined

\* route.ts:61: if (!webhookUrl)
WebhookUnconfigured(url) == Falsy(url)

\* The status of the webhook response never looked at.
WebhookNotOkIgnored(out) == FALSE

\* route.ts:118: if (!webhookResponse.ok)
WebhookNotOk(out) == out # "ok"

(***************************************************************************)
(* The three outbound calls.  Each is awaited: the invocation is suspended *)
(* until the call settles.                                                 *)
(***************************************************************************)
\* route.ts:38-47: await fetch(turnstileVerifyUrl, ...)
SendVerification(i) ==
    /\ verifyCalls' = [verifyCalls EXCEPT
           ![i] = Append(@, VerifyBody(env.CF_SECRET_KEY, request[i].turnstileToken))]
    /\ Emit(i, <<Begin("verify")>>, inflight[i] \cup {"verify"})
    /\ pc' = [pc EXCEPT ![i] = "awaitVerify"]
    /\ UNCHANGED <<webhookCalls, emailCalls>>

\* The webhook request sent and not awaited: the mail goes out at once.
SendWebhookNotAwaited(i) ==
    /\ webhookCalls' = [webhookCalls EXCEPT
           ![i] = Append(@, [url |-> env.WEBHOOK_URL, body |-> DiscordPayload(request[i])])]
    /\ emailCalls' = [emailCalls EXCEPT ![i] = Append(@, ConfirmationMail(request[i]))]
    /\ Emit(i, <<Begin("webhook"), Begin("email")>>, inflight[i] \cup {"webhook", "email"})
    /\ pc' = [pc EXCEPT ![i] = "awaitEmail"]
    /\ UNCHANGED verifyCalls

\* route.ts:70-116: await fetch(webhookUrl, ...)
SendWebhook(i) ==
    /\ webhookCalls' = [webhookCalls EXCEPT
           ![i] = Append(@, [url |-> env.WEBHOOK_URL, body |-> DiscordPayload(request[i])])]
    /\ Emit(i, <<Begin("webhook")>>, inflight[i] \cup {"webhook"})
    /\ pc' = [pc EXCEPT ![i] = "awaitWebhook"]
    /\ UNCHANGED <<verifyCalls, emailCalls>>

\* The mail built from a body kept in a module-level variable, which holds
\* the body of the first invocation.
SendEmailFromSharedBody(i) ==
    /\ emailCalls' = [emailCalls EXCEPT ![i] = Append(@, ConfirmationMail(request[1]))]
    /\ Emit(i, <<End("webhook"), Begin("email")>>, (inflight[i] \ {"webhook"}) \cup {"email"})
    /\ pc' = [pc EXCEPT ![i] = "awaitEmail"]
    /\ UNCHANGED <<verifyCalls, webhookCalls>>

\* route.ts:128-166: await resend.emails.send(...), entered when the webhook
\* fetch has resolved.
SendEmail(i) ==
    /\ emailCalls' = [emailCalls EXCEPT ![i] = Append(@, ConfirmationMail(request[i]))]
    /\ Emit(i, <<End("webhook"), Begin("email")>>, (inflight[i] \ {"webhook"}) \cup {"email"})
    /\ pc' = [pc EXCEPT ![i] = "awaitEmail"]
    /\ UNCHANGED <<verifyCalls, webhookCalls>>

(***************************************************************************)
(* POST is called with a request: route.ts:23-25 up to await               *)
(* request.json().                                                         *)
(***************************************************************************)
Call(i, bodies) ==
    /\ pc[i] = "idle"
    /\ \E b \in bodies : request' = [request EXCEPT ![i] = b]
    /\ pc' = [pc EXCEPT ![i] = "awaitBody"]
    /\ UNCHANGED <<pageVars, env, turnstileData, webhookResponse, response, verifyCalls,
                   webhookCalls, emailCalls, inflight, events, log>>

Invoke(i) == Call(i, Bodies)

(***************************************************************************)
(* request.json() settles, with the webhook configuration checked before   *)
(* the verification request is sent.                                       *)
(***************************************************************************)
BodySettledFailFast(i) ==
    /\ pc[i] = "awaitBody"
    /\ LET b == request[i] IN
       IF b.kind = "unparseable"
       THEN /\ CatchAll(i, "request.json")
            /\ Emit(i, <<Throw("request.json")>>, inflight[i])
            /\ UNCHANGED <<verifyCalls, webhookCalls, emailCalls>>
       ELSE IF CannotDestructure(b)
       THEN /\ CatchAll(i, "destructure")
            /\ Emit(i, <<Throw("destructure")>>, inflight[i])
            /\ UNCHANGED <<verifyCalls, webhookCalls, emailCalls>>
       ELSE IF ValidationFails(b)
       THEN /\ Return(i, MsgRequired, StatusBadRequest)
            /\ UNCHANGED <<verifyCalls, webhookCalls, emailCalls, inflight, events, log>>
       ELSE IF WebhookUnconfigured(env.WEBHOOK_URL)
       THEN /\ log' = [log EXCEPT ![i] = Append(@, "WEBHOOK_URL is not configured")]
            /\ Return(i, MsgServerError, StatusServerError)
            /\ UNCHANGED <<verifyCalls, webhookCalls, emailCalls, inflight, events>>
       ELSE /\ SendVerification(i)
            /\ UNCHANGED <<response, log>>
    /\ UNCHANGED <<pageVars, env, request, turnstileData, webhookResponse>>

(***************************************************************************)
(* request.json() settles: route.ts:25-47.  A body that does not parse     *)
(* makes it reject; destructuring null throws a TypeError; a number has    *)
(* none of the keys.  Then the validation, and the verification request    *)
(* is sent.                                                                *)
(***************************************************************************)
BodySettled(i) ==
    /\ pc[i] = "awaitBody"
    /\ LET b == request[i] IN
       IF b.kind = "unparseable"
       THEN /\ CatchAll(i, "request.json")
            /\ Emit(i, <<Throw("request.json")>>, inflight[i])
            /\ UNCHANGED <<verifyCalls, webhookCalls, emailCalls>>
       ELSE IF CannotDestructure(b)
       THEN /\ CatchAll(i, "destructure")
            /\ Emit(i, <<Throw("destructure")>>, inflight[i])
            /\ UNCHANGED <<verifyCalls, webhookCalls, emailCalls>>
       ELSE IF ValidationFails(b)
       THEN /\ Return(i, MsgRequired, StatusBadRequest)
            /\ UNCHANGED <<verifyCalls, webhookCalls, emailCalls, inflight, events, log>>
       ELSE /\ SendVerification(i)
            /\ UNCHANGED <<response, log>>
    /\ UNCHANGED <<pageVars, env, request, turnstileData, webhookResponse>>

(***************************************************************************)
(* The verification fetch settles, with one more attempt when the first    *)
(* request fails.                                                          *)
(***************************************************************************)
VerifySettledRetry(i, rejects) ==
    /\ pc[i] = "awaitVerify"
    /\ IF rejects /\ Len(verifyCalls[i]) < 2
       THEN /\ verifyCalls' = [verifyCalls EXCEPT
                   ![i] = Append(@, VerifyBody(env.CF_SECRET_KEY, request[i].turnstileToken))]
            /\ Emit(i, <<End("verify"), Begin("verify")>>, inflight[i])
            /\ UNCHANGED <<pc, response, log>>
       ELSE IF rejects
       THEN /\ CatchAll(i, "verify")
            /\ Emit(i, <<End("verify"), Throw("verify")>>, inflight[i] \ {"verify"})
            /\ UNCHANGED verifyCalls
       ELSE /\ pc' = [pc EXCEPT ![i] = "awaitVerifyJson"]
            /\ Emit(i, <<End("verify")>>, inflight[i] \ {"verify"})
            /\ UNCHANGED <<response, log, verifyCalls>>
    /\ UNCHANGED <<pageVars, request, turnstileData, webhookResponse, webhookCalls,
                   emailCalls>>
    /\ UNCHANGED env

(***************************************************************************)
(* The verification fetch settles: route.ts:38-49.  It rejects on a        *)
(* network failure; otherwise the body of the answer is read next.  The    *)
(* HTTP status of the answer is not looked at.                             *)
(***************************************************************************)
VerifySettled(i, rejects) ==
    /\ pc[i] = "awaitVerify"
    /\ IF rejects
       THEN /\ CatchAll(i, "verify")
            /\ Emit(i, <<End("verify"), Throw("verify")>>, inflight[i] \ {"verify"})
       ELSE /\ pc' = [pc EXCEPT ![i] = "awaitVerifyJson"]
            /\ Emit(i, <<End("verify")>>, inflight[i] \ {"verify"})
            /\ UNCHANGED <<response, log>>
    /\ UNCHANGED <<pageVars, env, request, turnstileData, webhookResponse, verifyCalls,
                   webhookCalls, emailCalls>>

(***************************************************************************)
(* turnstileResponse.json() settles: route.ts:49-116.  The success check,  *)
(* the webhook configuration check, and the webhook request is sent.       *)
(***************************************************************************)
VerifyJsonSettled(i, d) ==
    /\ pc[i] = "awaitVerifyJson"
    /\ turnstileData' = [turnstileData EXCEPT ![i] = d]
    /\ IF d.shape = "unparseable"
       THEN /\ CatchAll(i, "turnstileResponse.json")
            /\ Emit(i, <<Throw("turnstileResponse.json")>>, inflight[i])
            /\ UNCHANGED <<verifyCalls, webhookCalls, emailCalls>>
       ELSE IF d.shape = "null"
       THEN /\ CatchAll(i, "turnstileData.success")
            /\ Emit(i, <<Throw("turnstileData.success")>>, inflight[i])
            /\ UNCHANGED <<verifyCalls, webhookCalls, emailCalls>>
       ELSE IF VerificationFailed(d)
       THEN /\ log' = [log EXCEPT ![i] = Append(@, "Turnstile verification failed: " \o d.errorCodes)]
            /\ Return(i, MsgBotFailed, StatusBadRequest)
            /\ UNCHANGED <<verifyCalls, webhookCalls, emailCalls, inflight, events>>
       ELSE IF WebhookUnconfigured(env.WEBHOOK_URL)
       THEN /\ log' = [log EXCEPT ![i] = Append(@, "WEBHOOK_URL is not configured")]
            /\ Return(i, MsgServerError, StatusServerError)
            /\ UNCHANGED <<verifyCalls, webhookCalls, emailCalls, inflight, events>>
       ELSE /\ SendWebhook(i)
            /\ UNCHANGED <<response, log>>
    /\ UNCHANGED <<pageVars, env, request, webhookResponse>>

(***************************************************************************)
(* The webhook fetch settles: route.ts:110-166.  out is "rejected", "ok"   *)
(* or "notok".  On a response that is not ok its text is read next; on an  *)
(* ok one the confirmation mail is sent.                                   *)
(***************************************************************************)
WebhookSettled(i, out) ==
    /\ pc[i] = "awaitWebhook"
    /\ webhookResponse' = [webhookResponse EXCEPT ![i] = out]
    /\ IF out = "rejected"
       THEN /\ CatchAll(i, "webhook")
            /\ Emit(i, <<End("webhook"), Throw("webhook")>>, inflight[i] \ {"webhook"})
            /\ UNCHANGED <<verifyCalls, webhookCalls, emailCalls>>
       ELSE IF WebhookNotOk(out)
       THEN /\ Emit(i, <<End("webhook")>>, inflight[i] \ {"webhook"})
            /\ pc' = [pc EXCEPT ![i] = "awaitWebhookText"]
            /\ UNCHANGED <<response, log, verifyCalls, webhookCalls, emailCalls>>
       ELSE /\ SendEmail(i)
            /\ UNCHANGED <<response, log>>
    /\ UNCHANGED <<pageVars, env, request, turnstileData>>

(***************************************************************************)
(* webhookResponse.text() settles, with the text of the webhook's answer   *)
(* passed on to the caller.                                                *)
(***************************************************************************)
WebhookTextSettledLeaksBody(i, txt) ==
    /\ pc[i] = "awaitWebhookText"
    /\ IF txt = "rejected"
       THEN /\ CatchAll(i, "webhookResponse.text")
            /\ Emit(i, <<Throw("webhookResponse.text")>>, inflight[i])
       ELSE /\ log' = [log EXCEPT ![i] = Append(@, "Discord webhook failed: " \o txt)]
            /\ Return(i, txt, StatusServerError)
            /\ UNCHANGED <<inflight, events>>
    /\ UNCHANGED <<pageVars, env, request, turnstileData, webhookResponse, verifyCalls,
                   webhookCalls, emailCalls>>

(***************************************************************************)
(* webhookResponse.text() settles: route.ts:119-123.  txt is the text, or  *)
(* "rejected" when reading it fails.                                       *)
(***************************************************************************)
WebhookTextSettled(i, txt) ==
    /\ pc[i] = "awaitWebhookText"
    /\ IF txt = "rejected"
       THEN /\ CatchAll(i, "webhookResponse.text")
            /\ Emit(i, <<Throw("webhookResponse.text")>>, inflight[i])
       ELSE /\ log' = [log EXCEPT ![i] = Append(@, "Discord webhook failed: " \o txt)]
            /\ Return(i, MsgSendFailed, StatusServerError)
            /\ UNCHANGED <<inflight, events>>
    /\ UNCHANGED <<pageVars, env, request, turnstileData, webhookResponse, verifyCalls,
                   webhookCalls, emailCalls>>

(***************************************************************************)
(* resend.emails.send settles, without the inner try: a rejection reaches  *)
(* the outer catch.                                                        *)
(***************************************************************************)
EmailSettledUncaught(i, rejects) ==
    /\ pc[i] = "awaitEmail"
    /\ IF rejects
       THEN /\ CatchAll(i, "email")
            /\ Emit(i, <<End("email"), Throw("email")>>, inflight[i] \ {"email"})
       ELSE /\ Emit(i, <<End("email")>>, inflight[i] \ {"email"})
            /\ Return(i, MsgCompleted, StatusOk)
            /\ UNCHANGED log
    /\ UNCHANGED <<pageVars, env, request, turnstileData, webhookResponse, verifyCalls,
                   webhookCalls, emailCalls>>

(***************************************************************************)
(* resend.emails.send settles: route.ts:127-175.  A rejection is caught    *)
(* by the inner catch (route.ts:167-170) and logged; either way POST       *)
(* returns the success response.                                           *)
(***************************************************************************)
EmailSettled(i, rejects) ==
    /\ pc[i] = "awaitEmail"
    /\ IF rejects
       THEN /\ log' = [log EXCEPT ![i] = Append(@, "Email sending failed")]
            /\ Emit(i, <<End("email"), Throw("email")>>, inflight[i] \ {"email"})
       ELSE /\ Emit(i, <<End("email")>>, inflight[i] \ {"email"})
            /\ UNCHANGED log
    /\ Return(i, MsgCompleted, StatusOk)
    /\ UNCHANGED <<pageVars, env, request, turnstileData, webhookResponse, verifyCalls,
                   webhookCalls, emailCalls>>

(***************************************************************************)
(* One step of invocation i.  Settle(i) is a step of an invocation that    *)
(* has begun: one of the promises it awaits settles.                       *)
(***************************************************************************)
Settle(i) ==
    \/ BodySettled(i)
    \/ \E rejects \in BOOLEAN : VerifySettled(i, rejects)
    \/ \E d \in TurnstileResponse : VerifyJsonSettled(i, d)
    \/ \E out \in {"rejected", "ok", "notok"} : WebhookSettled(i, out)
    \/ \E txt \in WebhookTexts \cup {"rejected"} : WebhookTextSettled(i, txt)
    \/ \E rejects \in BOOLEAN : EmailSettled(i, rejects)

POST(i) ==
    \/ Invoke(i)
    \/ BodySettled(i)
    \/ \E rejects \in BOOLEAN : VerifySettled(i, rejects)
    \/ \E d \in TurnstileResponse : VerifyJsonSettled(i, d)
    \/ \E out \in {"rejected", "ok", "notok"} : WebhookSettled(i, out)
    \/ \E txt \in WebhookTexts \cup {"rejected"} : WebhookTextSettled(i, txt)
    \/ \E rejects \in BOOLEAN : EmailSettled(i, rejects)

(***************************************************************************)
(* Spec: a single invocation of POST, with every request body and every    *)
(* behaviour of the three services.                                        *)
(***************************************************************************)
Next == POST(1)

Spec == Init /\ [][Next]_vars

(***************************************************************************)
(* SpecFair: a single invocation in which every promise POST awaits        *)
(* settles in the end (a call that hangs ends with the transport timeout   *)
(* of the HTTP client) and the runtime then resumes the handler.           *)
(***************************************************************************)
SpecFair == Spec /\ WF_vars(Settle(1))

(***************************************************************************)
(* SpecConcurrent: the invocations of POST run concurrently, their steps   *)
(* interleaved in every order.                                             *)
(***************************************************************************)
NextConcurrent == \E i \in Inv : Call(i, ConcurrentBodies) \/ Settle(i)

SpecConcurrent == Init /\ [][NextConcurrent]_vars

(***************************************************************************)
(* The page script.  Its handlers are registered once, when the page has   *)
(* loaded; an action is one event with every handler registered for it.    *)
(***************************************************************************)
\* script.js:7: the menu handlers are registered only when both elements exist.
MenuListening == dom.menuBtn /\ dom.mobileMenu

Menu == [menu |-> menuActive, btn |-> btnActive, overflow |-> bodyOverflow]

SetMenu(m) ==
    /\ menuActive' = m.menu
    /\ btnActive' = m.btn
    /\ bodyOverflow' = m.overflow

\* The click on the menu button with the button's own class left alone.
ToggleMenuOnly(m) ==
    [menu |-> ~m.menu, btn |-> m.btn, overflow |-> IF ~m.menu THEN "hidden" ELSE ""]

\* script.js:8-14: the click on the menu button.
ToggleMenu(m) ==
    [menu |-> ~m.menu, btn |-> ~m.btn, overflow |-> IF ~m.menu THEN "hidden" ELSE ""]

\* script.js:18-22: the click on a link of the mobile menu.
CloseMenu(m) == [menu |-> FALSE, btn |-> FALSE, overflow |-> ""]

\* script.js:42-63: the click on a link whose href begins with "#".  Nothing
\* happens for the bare "#" and for a fragment without element; without the
\* mobile menu, mobileMenu.classList throws and the handler ends there.  The
\* smooth scroll it starts arrives as scroll events.
AnchorClicked(m, href) ==
    IF href = "#" \/ ~TargetExists(href) \/ ~dom.mobileMenu
    THEN m
    ELSE [menu |-> FALSE, btn |-> IF dom.menuBtn THEN FALSE ELSE m.btn, overflow |-> ""]

MenuBtnClick ==
    /\ MenuListening
    /\ SetMenu(ToggleMenu(Menu))
    /\ lastEvent' = [kind |-> "menuBtn", menuWasActive |-> menuActive]
    /\ UNCHANGED <<postVars, dom, scrollY, prevScrollY, navbar>>

\* A link is clicked: one inside the mobile menu (inMenu) or elsewhere on
\* the page.  The handler of the menu's links runs first, then the one of
\* the anchors.
LinkClick(inMenu, href) ==
    /\ inMenu => dom.mobileMenu
    /\ (inMenu /\ MenuListening) \/ IsAnchor(href)
    /\ LET m1 == IF inMenu /\ MenuListening THEN CloseMenu(Menu) ELSE Menu
           m2 == IF IsAnchor(href) THEN AnchorClicked(m1, href) ELSE m1
       IN  SetMenu(m2)
    /\ lastEvent' = [kind |-> IF inMenu THEN "menuLink" ELSE "anchor",
                     menuWasActive |-> menuActive]
    /\ UNCHANGED <<postVars, dom, scrollY, prevScrollY, navbar>>

\* script.js:28-38: the scroll listener; without the navbar, navbar.style throws.
NavbarStyled(n, y) ==
    IF y > HeaderThreshold
    THEN [n EXCEPT !.background = "rgba(15, 23, 42, 0.95)", !.padding = "15px 0",
                   !.boxShadow = "0 4px 20px rgba(0,0,0,0.3)"]
    ELSE [n EXCEPT !.background = "rgba(15, 23, 42, 0.8)", !.padding = "20px 0",
                   !.boxShadow = "none"]

Scroll(y) ==
    /\ y # scrollY
    /\ scrollY' = y
    /\ prevScrollY' = scrollY
    /\ navbar' = IF dom.navbar THEN NavbarStyled(navbar, y) ELSE navbar
    /\ lastEvent' = [kind |-> "scroll", menuWasActive |-> menuActive]
    /\ UNCHANGED <<postVars, dom, menuActive, btnActive, bodyOverflow>>

(***************************************************************************)
(* SpecPage: a static page after DOMContentLoaded, with every sequence of  *)
(* clicks and scroll events.  The handler POST plays no part in it.        *)
(***************************************************************************)
InitPage ==
    /\ env = [WEBHOOK_URL |-> "str:https://hook", CF_SECRET_KEY |-> "str:secret"]
    /\ NoInvocation
    /\ \E d \in Doms : PageLoaded(d)

NextPage ==
    \/ MenuBtnClick
    \/ \E inMenu \in BOOLEAN, href \in Hrefs : LinkClick(inMenu, href)
    \/ \E y \in ScrollPositions : Scroll(y)

SpecPage == InitPage /\ [][NextPage]_vars

TypeOK ==
    /\ env \in Environments
    /\ \A i \in Inv :
         /\ pc[i] \in {"idle", "awaitBody", "awaitVerify", "awaitVerifyJson",
                       "awaitWebhook", "awaitWebhookText", "awaitEmail", "done"}
         /\ request[i] \in Bodies \cup {NoRequest}
         /\ turnstileData[i] \in TurnstileResponse \cup {NoData}
         /\ webhookResponse[i] \in {"none", "ok", "notok", "rejected"}
         /\ inflight[i] \subseteq {"verify", "webhook", "email"}

(***************************************************************************)
(* Vocabulary of the properties.                                           *)
(***************************************************************************)
RequiredKeys == {"company", "name", "email", "message", "privacyPolicy", "turnstileToken"}

\* The request carried a JSON document (request.json() gave a value).
IsPayload(b) == b.kind \in {"null", "number", "object"}

SomeRequiredMissing(b) == \E k \in RequiredKeys : Falsy(b[k])

ValidPayload(b) == b.kind = "object" /\ \A k \in RequiredKeys : Truthy(b[k])

Returned(i) == pc[i] = "done"

Responded(i, msg, st) == Returned(i) /\ response[i] = [status |-> st, message |-> msg]

NoCallBegun(i) == \A k \in 1 .. Len(events[i]) : events[i][k][2] # "begin"

NoOutboundCalls(i) ==
    /\ verifyCalls[i] = <<>>
    /\ webhookCalls[i] = <<>>
    /\ emailCalls[i] = <<>>
    /\ NoCallBegun(i)

NoNotification(i) ==
    /\ webhookCalls[i] = <<>>
    /\ emailCalls[i] = <<>>
    /\ \A k \in 1 .. Len(events[i]) : events[i][k] \notin {Begin("webhook"), Begin("email")}

NoEmail(i) ==
    /\ emailCalls[i] = <<>>
    /\ \A k \in 1 .. Len(events[i]) : events[i][k] # Begin("email")

Threw(i, origin) == \E k \in 1 .. Len(events[i]) : events[i][k] = Throw(origin)

VerificationSucceeded(i) ==
    turnstileData[i].shape = "object" /\ turnstileData[i].success = JsTrue

WebhookConfigured == env.WEBHOOK_URL \notin {JsUndefined, JsEmpty}

(***************************************************************************)
(* C1, as stated: every request payload in which a required field is       *)
(* missing or falsy is answered with 400 and the required-fields message,  *)
(* and no outbound call is made at any point of the invocation.            *)
(***************************************************************************)
C1_AsStated ==
    \A i \in Inv :
        (IsPayload(request[i]) /\ SomeRequiredMissing(request[i])) =>
            /\ NoOutboundCalls(i)
            /\ Returned(i) => Responded(i, MsgRequired, StatusBadRequest)

(***************************************************************************)
(* C1, amended: a payload other than null in which a required field is     *)
(* missing or falsy is answered with 400 and the required-fields message;  *)
(* the payload null is answered with 500 and the server-error message;     *)
(* in both cases no outbound call is made at any point of the invocation.  *)
(***************************************************************************)
C1_MissingFieldRejected ==
    \A i \in Inv :
        (IsPayload(request[i]) /\ SomeRequiredMissing(request[i])) =>
            /\ NoOutboundCalls(i)
            /\ (Returned(i) /\ request[i].kind # "null") =>
                   Responded(i, MsgRequired, StatusBadRequest)
            /\ (Returned(i) /\ request[i].kind = "null") =>
                   Responded(i, MsgServerError, StatusServerError)

C1_Witness ==
    \E i \in Inv :
        /\ request[i].kind = "object"
        /\ request[i].turnstileToken = JsUndefined
        /\ \A k \in RequiredKeys \ {"turnstileToken"} : Truthy(request[i][k])
        /\ Responded(i, MsgRequired, StatusBadRequest)

(***************************************************************************)
(* C2: for a valid payload, when the verification service answers with     *)
(* success false, POST returns 400 with the bot-verification message and   *)
(* neither the webhook nor the mail service is called.                     *)
(***************************************************************************)
C2_RejectedVerification ==
    \A i \in Inv :
        (/\ ValidPayload(request[i])
         /\ turnstileData[i].shape = "object"
         /\ turnstileData[i].success = JsFalse) =>
            /\ Responded(i, MsgBotFailed, StatusBadRequest)
            /\ NoNotification(i)

C2_Witness ==
    \E i \in Inv :
        /\ ValidPayload(request[i])
        /\ turnstileData[i].success = JsFalse
        /\ turnstileData[i].errorCodes = JsUndefined
        /\ Len(verifyCalls[i]) = 1
        /\ Responded(i, MsgBotFailed, StatusBadRequest)

(***************************************************************************)
(* C3: for a valid payload whose verification succeeded, when the webhook  *)
(* URL is not configured POST returns 500 with the server-error message    *)
(* and neither the webhook nor the mail service is called.                 *)
(***************************************************************************)
C3_UnconfiguredWebhook ==
    \A i \in Inv :
        (/\ ValidPayload(request[i])
         /\ VerificationSucceeded(i)
         /\ ~WebhookConfigured) =>
            /\ Responded(i, MsgServerError, StatusServerError)
            /\ NoNotification(i)

C3_Witness ==
    \E i \in Inv :
        /\ ValidPayload(request[i])
        /\ VerificationSucceeded(i)
        /\ env.WEBHOOK_URL = JsEmpty
        /\ Responded(i, MsgServerError, StatusServerError)

(***************************************************************************)
(* C4: for a valid payload with successful verification and a configured   *)
(* webhook URL, when the webhook request does not succeed (the response is *)
(* not OK, or the request fails) the confirmation mail is never attempted  *)
(* and the response POST returns has status 500.                           *)
(***************************************************************************)
C4_WebhookFailureIsFatal ==
    \A i \in Inv :
        (/\ ValidPayload(request[i])
         /\ VerificationSucceeded(i)
         /\ WebhookConfigured
         /\ webhookResponse[i] \in {"notok", "rejected"}) =>
            /\ NoEmail(i)
            /\ Returned(i) => response[i].status = StatusServerError

C4_Witness ==
    \E i \in Inv :
        /\ webhookResponse[i] = "notok"
        /\ Len(webhookCalls[i]) = 1
        /\ Responded(i, MsgSendFailed, StatusServerError)

(***************************************************************************)
(* C5: for a valid payload with successful verification and successful     *)
(* webhook delivery, POST returns 200 with the success message whether     *)
(* the mail was sent or sending it threw.                                  *)
(***************************************************************************)
C5_EmailFailureIsAbsorbed ==
    \A i \in Inv :
        (/\ ValidPayload(request[i])
         /\ VerificationSucceeded(i)
         /\ webhookResponse[i] = "ok"
         /\ Returned(i)) =>
            Responded(i, MsgCompleted, StatusOk)

C5_Witness ==
    \E i \in Inv :
        /\ webhookResponse[i] = "ok"
        /\ Threw(i, "email")
        /\ Returned(i)

(***************************************************************************)
(* C6: for a valid payload with the three downstream calls succeeding,     *)
(* POST returns 200 with the success message, and the payload sent to the  *)
(* webhook has one phone field when a non-empty phone was supplied and     *)
(* none otherwise: 5 fields with the phone, 4 without.                     *)
(***************************************************************************)
PhoneSupplied(b) == b.phone \notin {JsUndefined, JsEmpty}

PhoneFieldsOf(fields) == {k \in 1 .. Len(fields) : fields[k].name = "Denwa bangou"}

AllSucceeded(i) ==
    /\ ValidPayload(request[i])
    /\ VerificationSucceeded(i)
    /\ webhookResponse[i] = "ok"
    /\ Returned(i)
    /\ ~Threw(i, "email")

C6_SuccessAndPhoneField ==
    \A i \in Inv :
        AllSucceeded(i) =>
            /\ Responded(i, MsgCompleted, StatusOk)
            /\ Len(webhookCalls[i]) = 1
            /\ LET fields == webhookCalls[i][1].body.fields IN
               IF PhoneSupplied(request[i])
               THEN /\ Len(fields) = 5
                    /\ Cardinality(PhoneFieldsOf(fields)) = 1
                    /\ \A k \in PhoneFieldsOf(fields) : fields[k].value = request[i].phone
               ELSE /\ Len(fields) = 4
                    /\ PhoneFieldsOf(fields) = {}

C6_Witness ==
    \E i \in Inv :
        /\ AllSucceeded(i)
        /\ request[i].phone = JsEmpty
        /\ Len(webhookCalls[i][1].body.fields) = 4


(***************************************************************************)
(* C7, as stated: for a valid payload, every non-success result of the     *)
(* verification stage (the request failing, an explicit rejection, an      *)
(* answer that does not parse or has no success) is answered with 400 and  *)
(* the bot-verification message, and neither the webhook nor the mail      *)
(* service is called.                                                      *)
(***************************************************************************)
VerificationNotSuccessful(i) ==
    \/ Threw(i, "verify")
    \/ turnstileData[i].shape \in {"unparseable", "null"}
    \/ turnstileData[i].shape = "object" /\ turnstileData[i].success # JsTrue

C7_AsStated ==
    \A i \in Inv :
        (ValidPayload(request[i]) /\ Returned(i) /\ VerificationNotSuccessful(i)) =>
            /\ Responded(i, MsgBotFailed, StatusBadRequest)
            /\ NoNotification(i)

(***************************************************************************)
(* C8: a response with status 200 implies that the payload passed the      *)
(* validation, the verification service reported success, the webhook URL  *)
(* was configured and the webhook delivery returned an OK response.        *)
(***************************************************************************)
C8_NoPartialCommit ==
    \A i \in Inv :
        response[i].status = StatusOk =>
            /\ ValidPayload(request[i])
            /\ VerificationSucceeded(i)
            /\ WebhookConfigured
            /\ webhookResponse[i] = "ok"
            /\ Len(verifyCalls[i]) = 1
            /\ Len(webhookCalls[i]) = 1

C8_Witness ==
    \E i \in Inv :
        /\ response[i].status = StatusOk
        /\ request[i].privacyPolicy = JsTrue
        /\ Threw(i, "email")

(***************************************************************************)
(* C9: the outbound calls of an invocation are strictly ordered: at most   *)
(* one is in flight at any time, the webhook call begins only after the    *)
(* verification call has ended, and the mail call begins only after the    *)
(* webhook call has ended.                                                 *)
(***************************************************************************)
EndedBefore(i, svc, k) == \E j \in 1 .. (k - 1) : events[i][j] = End(svc)

C9_StrictOrder ==
    \A i \in Inv :
        /\ Cardinality(inflight[i]) <= 1
        /\ \A k \in 1 .. Len(events[i]) :
             /\ events[i][k] = Begin("webhook") => EndedBefore(i, "verify", k)
             /\ events[i][k] = Begin("email") => EndedBefore(i, "webhook", k)

C9_Witness ==
    \E i \in Inv :
        /\ inflight[i] = {"email"}
        /\ events[i] = <<Begin("verify"), End("verify"), Begin("webhook"),
                         End("webhook"), Begin("email")>>

(***************************************************************************)
(* C10: an exception thrown outside the mail stage (the body not parsing,  *)
(* a payload that cannot be destructured, an outbound request or the       *)
(* reading of its answer throwing) ends the invocation with a response of  *)
(* status 500 and the server-error message, and nothing runs after it.     *)
(***************************************************************************)
C10_ExceptionBecomesServerError ==
    \A i \in Inv :
        \A k \in 1 .. Len(events[i]) :
            (events[i][k][2] = "throw" /\ events[i][k][1] # "email") =>
                /\ Responded(i, MsgServerError, StatusServerError)
                /\ k = Len(events[i])

C10_Witness ==
    \E i \in Inv :
        /\ Threw(i, "webhook")
        /\ Len(webhookCalls[i]) = 1
        /\ Responded(i, MsgServerError, StatusServerError)

(***************************************************************************)
(* C12: there is no retry: in an invocation each of the three downstream   *)
(* services is called at most once, and an invocation that returns the     *)
(* success response has called each of them exactly once.                  *)
(***************************************************************************)
Services == {"verify", "webhook", "email"}

CallsBegun(i, svc) == Cardinality({k \in 1 .. Len(events[i]) : events[i][k] = Begin(svc)})

CallsMade(i, svc) ==
    CASE svc = "verify" -> Len(verifyCalls[i])
      [] svc = "webhook" -> Len(webhookCalls[i])
      [] svc = "email" -> Len(emailCalls[i])

C12_NoRetry ==
    \A i \in Inv :
        \A svc \in Services :
            /\ CallsMade(i, svc) <= 1
            /\ CallsBegun(i, svc) = CallsMade(i, svc)
            /\ response[i].status = StatusOk => CallsMade(i, svc) = 1

C12_Witness ==
    \E i \in Inv :
        /\ Threw(i, "verify")
        /\ Returned(i)
        /\ CallsMade(i, "verify") = 1
        /\ CallsBegun(i, "verify") = 1


(***************************************************************************)
(* C13, as stated: the fields of the webhook payload are, in this order,   *)
(* company, name, email, phone (only when supplied) and message, each      *)
(* with the value of the request; company, name and phone are marked       *)
(* inline, email and message are not.                                      *)
(***************************************************************************)
\* The attributes of the submission in the order of the fields.
FieldAttributes(b) ==
    <<"company", "name", "email">>
    \o (IF PhoneSupplied(b) THEN <<"phone">> ELSE <<>>)
    \o <<"message">>

FieldLabel(attr) ==
    CASE attr = "company" -> "Kaisha-mei"
      [] attr = "name" -> "Shimei"
      [] attr = "email" -> "Meeru adoresu"
      [] attr = "phone" -> "Denwa bangou"
      [] attr = "message" -> "Otoiawase naiyou"

\* The fields are those of the attributes of b, in order, and exactly the
\* attributes of inlined are marked inline.
FieldsAre(fields, b, inlined) ==
    LET attrs == FieldAttributes(b) IN
    /\ Len(fields) = Len(attrs)
    /\ \A k \in 1 .. Len(attrs) :
         /\ fields[k].name = FieldLabel(attrs[k])
         /\ fields[k].value = b[attrs[k]]
         /\ fields[k].inline = (attrs[k] \in inlined)

C14_AsStated ==
    \A i \in Inv :
        (request[i].kind = "object" /\ request[i].privacyPolicy # JsTrue) =>
            /\ verifyCalls[i] = <<>>
            /\ NoCallBegun(i)
            /\ Returned(i) => response[i].status = StatusBadRequest

(***************************************************************************)
(* C18: the webhook configuration is looked at only after the              *)
(* verification: for a valid payload the verification request, carrying    *)
(* the token, is sent exactly once, first of all calls, whatever the       *)
(* webhook URL and the verification secret are; and a valid submission     *)
(* whose verification succeeded against an unconfigured webhook gets 500   *)
(* with the server-error message after that one call has ended.            *)
(***************************************************************************)
C18_VerificationBeforeConfigCheck ==
    \A i \in Inv :
        /\ (ValidPayload(request[i]) /\ pc[i] \notin {"idle", "awaitBody"}) =>
              /\ Len(verifyCalls[i]) = 1
              /\ verifyCalls[i][1].response = request[i].turnstileToken
              /\ CallsBegun(i, "verify") = 1
              /\ events[i][1] = Begin("verify")
        /\ (ValidPayload(request[i]) /\ VerificationSucceeded(i) /\ ~WebhookConfigured) =>
              /\ Responded(i, MsgServerError, StatusServerError)
              /\ events[i] = <<Begin("verify"), End("verify")>>

C18_Witness ==
    \E i \in Inv :
        /\ ValidPayload(request[i])
        /\ env.WEBHOOK_URL = JsUndefined
        /\ env.CF_SECRET_KEY = JsUndefined
        /\ VerificationSucceeded(i)
        /\ Len(verifyCalls[i]) = 1
        /\ verifyCalls[i][1].secret = "absent"
        /\ Responded(i, MsgServerError, StatusServerError)


(***************************************************************************)
(* C11: the response carries no diagnostic detail: its message is one of   *)
(* the five fixed texts, and two invocations that differ only in the       *)
(* error codes of the verification, the text of the webhook's answer or    *)
(* the content of a thrown exception return the same status and message.   *)
(***************************************************************************)
FixedMessages == {MsgRequired, MsgBotFailed, MsgServerError, MsgSendFailed, MsgCompleted}

\* The calls and exceptions of an invocation, without what was thrown.
Outline(i) ==
    [k \in 1 .. Len(events[i]) |->
        IF events[i][k][2] = "throw" THEN <<"exception", "throw">> ELSE events[i][k]]

SameButDiagnostics(i, j) ==
    /\ request[i] = request[j]
    /\ VerificationSucceeded(i) = VerificationSucceeded(j)
    /\ webhookResponse[i] = webhookResponse[j]
    /\ Outline(i) = Outline(j)

C11_NoDiagnosticsInResponse ==
    \A i \in Inv :
        /\ response[i] # NoResponse =>
              /\ response[i].message \in FixedMessages
              /\ response[i].status \in {StatusOk, StatusBadRequest, StatusServerError}
        /\ \A j \in Inv :
              (Returned(i) /\ Returned(j) /\ SameButDiagnostics(i, j)) =>
                  response[i] = response[j]

C11_Witness ==
    \E i, j \in Inv :
        /\ Returned(i) /\ Returned(j)
        /\ SameButDiagnostics(i, j)
        /\ webhookResponse[i] = "notok"
        /\ log[i] # log[j]
        /\ response[i] = response[j]


(***************************************************************************)
(* C15: concurrent invocations are independent: in every interleaving the  *)
(* calls of an invocation carry the data of its own request, its response  *)
(* is the one its own request and the results of its own calls give when   *)
(* it runs alone, and a step of one invocation changes nothing of another  *)
(* invocation nor the configuration.                                       *)
(***************************************************************************)
Local(i) ==
    <<pc[i], request[i], turnstileData[i], webhookResponse[i], response[i], verifyCalls[i],
      webhookCalls[i], emailCalls[i], inflight[i], events[i], log[i]>>

\* The response of an invocation that has returned, from what it was given.
AloneResponse(i) ==
    IF request[i].kind \in {"unparseable", "null"}
    THEN [status |-> StatusServerError, message |-> MsgServerError]
    ELSE IF ~ValidPayload(request[i])
    THEN [status |-> StatusBadRequest, message |-> MsgRequired]
    ELSE IF Threw(i, "verify") \/ turnstileData[i].shape \in {"unparseable", "null"}
    THEN [status |-> StatusServerError, message |-> MsgServerError]
    ELSE IF ~VerificationSucceeded(i)
    THEN [status |-> StatusBadRequest, message |-> MsgBotFailed]
    ELSE IF ~WebhookConfigured
    THEN [status |-> StatusServerError, message |-> MsgServerError]
    ELSE IF webhookResponse[i] = "rejected" \/ Threw(i, "webhookResponse.text")
    THEN [status |-> StatusServerError, message |-> MsgServerError]
    ELSE IF webhookResponse[i] = "notok"
    THEN [status |-> StatusServerError, message |-> MsgSendFailed]
    ELSE [status |-> StatusOk, message |-> MsgCompleted]

OwnData(i) ==
    /\ \A k \in 1 .. Len(verifyCalls[i]) :
         verifyCalls[i][k].response = request[i].turnstileToken
    /\ \A k \in 1 .. Len(webhookCalls[i]) :
         /\ webhookCalls[i][k].url = env.WEBHOOK_URL
         /\ FieldsAre(webhookCalls[i][k].body.fields, request[i], {"company", "name"})
    /\ \A k \in 1 .. Len(emailCalls[i]) :
         /\ emailCalls[i][k].to = request[i].email
         /\ emailCalls[i][k].html =
               <<request[i].name, request[i].company, request[i].name, request[i].email>>
               \o (IF PhoneSupplied(request[i]) THEN <<request[i].phone>> ELSE <<>>)
               \o <<request[i].message>>

StepOfOne ==
    \E i \in Inv :
        /\ env' = env
        /\ \A j \in Inv \ {i} : Local(j)' = Local(j)

C15_Independent ==
    /\ [](\A i \in Inv : OwnData(i) /\ (Returned(i) => response[i] = AloneResponse(i)))
    /\ [][StepOfOne]_vars

C15_Witness ==
    \E i, j \in Inv :
        /\ request[i] = Submission1 /\ request[j] = Submission2
        /\ pc[j] = "awaitEmail"
        /\ Returned(i) /\ webhookResponse[i] = "notok"
        /\ emailCalls[j][1].to = "str:s@example.org"


(***************************************************************************)
(* C16: every invocation ends in exactly one terminal outcome: when every  *)
(* call that was started settles, an invocation that has begun returns a   *)
(* response in the end, with status 200, 400 or 500; it has a response     *)
(* exactly when it has returned, no call is then in flight, and from then  *)
(* on its response does not change and it makes no outbound call.          *)
(***************************************************************************)
Terminal(i) ==
    /\ Returned(i)
    /\ response[i].status \in {StatusOk, StatusBadRequest, StatusServerError}
    /\ inflight[i] = {}

Calls(i) == <<verifyCalls[i], webhookCalls[i], emailCalls[i], events[i], inflight[i]>>

C16_OneTerminalOutcome ==
    /\ \A i \in Inv : (pc[i] = "awaitBody") ~> Terminal(i)
    /\ [](\A i \in Inv : (response[i] # NoResponse) <=> Terminal(i))
    /\ [][\A i \in Inv :
            response[i] # NoResponse =>
                /\ response'[i] = response[i]
                /\ Returned(i)'
                /\ Calls(i)' = Calls(i)]_vars

C16_Witness ==
    \E i \in Inv :
        /\ Terminal(i)
        /\ response[i].status = StatusOk
        /\ events[i][Len(events[i])] = End("email")


(***************************************************************************)
(* C17, as stated: once scrollY exceeds 100px, a scroll event downwards    *)
(* leaves the navbar hidden and a scroll event upwards leaves it shown.    *)
(***************************************************************************)
DocumentedThreshold == 100

NavbarHidden == navbar.display = "none" \/ navbar.transform # ""

C17_AsStated ==
    (lastEvent.kind = "scroll" /\ dom.navbar /\ scrollY > DocumentedThreshold) =>
        /\ scrollY > prevScrollY => NavbarHidden
        /\ scrollY < prevScrollY => ~NavbarHidden

(***************************************************************************)
(* C19: starting from a closed menu, after any sequence of clicks on the   *)
(* menu button, on links inside the mobile menu and on anchor links, the   *)
(* 'active' flag of the button equals that of the menu and the body's      *)
(* overflow is 'hidden' exactly when the menu is active; after a click on  *)
(* a link inside the menu the menu is closed and the overflow released.    *)
(***************************************************************************)
C19_MenuInvariant ==
    /\ btnActive = menuActive
    /\ (bodyOverflow = "hidden") <=> menuActive
    /\ bodyOverflow \in {"", "hidden"}
    /\ lastEvent.kind = "menuLink" => (~menuActive /\ ~btnActive /\ bodyOverflow = "")

C19_Witness ==
    /\ lastEvent = [kind |-> "menuLink", menuWasActive |-> TRUE]
    /\ ~menuActive
    /\ ~btnActive
    /\ bodyOverflow = ""


=============================================================================
